---------------------------- MODULE Spec2Model ----------------------------
(***************************************************************************)
(* A model of NetscapeGen (excel_to_netscape.py): the conversion pipeline  *)
(* of main() from the decoded table to the bookmark document and the       *)
(* summary.                                                                *)
(*                                                                         *)
(* Text is modelled as a sequence of one-character strings, so that        *)
(* str.strip, re.fullmatch, int() and html.escape are computed character   *)
(* by character.  A cell of the table is a text or NaN (an empty Excel     *)
(* cell as pandas decodes it).  The document is modelled as its sequence   *)
(* of lines; the ADD_DATE / LAST_MODIFIED attributes (the clock) are not   *)
(* part of a line's model.                                                 *)
(***************************************************************************)
EXTENDS Integers, Sequences, FiniteSets

VARIABLES
    pc,                      \* the position of main() in its numbered steps
    columns,                 \* df.columns.tolist()
    df,                      \* the rows of the decoded table
    dynamic_folder_columns,  \* the detected folder columns, by level
    df_cleaned,              \* the rows kept by step 6
    bookmark_tree,           \* the tree build_bookmark_tree is filling
    row_idx,                 \* build_bookmark_tree: the row df.iterrows() is at
    full_html,               \* the document, as lines
    saved,                   \* whether the document was written to the file
    import_stats,            \* the accumulator analyze_tree_stats fills
    summary_message_str      \* get_summary_message's report, as lines

vars ==
    <<pc, columns, df, dynamic_folder_columns, df_cleaned, bookmark_tree,
      row_idx, full_html, saved, import_stats, summary_message_str>>

---------------------------------------------------------------------------
(* Bounds of the model.                                                    *)

\* The number of rows of a table.
MaxRows == 2

\* The number of columns of a table of the schema-detection specification.
MaxCols == 5

---------------------------------------------------------------------------
(* Text and cells.                                                         *)

\* A missing cell.  It is a one-element tuple whose element is no single
\* character, so it differs from every text.
NaN == <<"NaN">>

TITLE_COLUMN == <<"T", "i", "t", "l", "e">>

URL_COLUMN == <<"U", "R", "L">>

\* The literal part of the pattern r'FolderL(\d+)'.
FolderPrefix == <<"F", "o", "l", "d", "e", "r", "L">>

Digits == {"0", "1", "2", "3", "4", "5", "6", "7", "8", "9"}

DigitValue(c) ==
    CASE c = "0" -> 0 [] c = "1" -> 1 [] c = "2" -> 2 [] c = "3" -> 3
      [] c = "4" -> 4 [] c = "5" -> 5 [] c = "6" -> 6 [] c = "7" -> 7
      [] c = "8" -> 8 [] c = "9" -> 9

\* The characters str.strip() removes.
Whitespace == {" ", "\t"}

RECURSIVE LStrip(_)
LStrip(s) ==
    IF s # <<>> /\ Head(s) \in Whitespace THEN LStrip(Tail(s)) ELSE s

RECURSIVE RStrip(_)
RStrip(s) ==
    IF s # <<>> /\ s[Len(s)] \in Whitespace
    THEN RStrip(SubSeq(s, 1, Len(s) - 1))
    ELSE s

\* str(x).strip()
Strip(s) == RStrip(LStrip(s))

\* pd.notna(x)
NotNa(cell) == cell # NaN

\* pd.notna(x) and str(x).strip() != ""
HasContent(cell) == NotNa(cell) /\ Strip(cell) # <<>>

\* row.get(col): None (which pd.notna rejects like NaN) for a missing column.
RowGet(row, col) == IF col \in DOMAIN row THEN row[col] ELSE NaN

---------------------------------------------------------------------------
(* Step 4: the required columns.                                           *)

\* col in cols
In(col, cols) == \E i \in 1..Len(cols) : cols[i] = col

\* The check with "and" in place of "or": it passes when one column is there.
RequiredColumnsPresent_Either(cols) ==
    ~ (~ In(TITLE_COLUMN, cols) /\ ~ In(URL_COLUMN, cols))

\* not (TITLE_COLUMN not in df.columns or URL_COLUMN not in df.columns)
RequiredColumnsPresent(cols) ==
    ~ (~ In(TITLE_COLUMN, cols) \/ ~ In(URL_COLUMN, cols))

---------------------------------------------------------------------------
(* Step 5: the folder columns.                                             *)

\* re.match in place of re.fullmatch: the digits may be followed by anything.
FullMatch_Prefix(name) ==
    /\ Len(name) > Len(FolderPrefix)
    /\ SubSeq(name, 1, Len(FolderPrefix)) = FolderPrefix
    /\ name[Len(FolderPrefix) + 1] \in Digits

\* re.fullmatch(r'FolderL(\d+)', col_name) matches.
FullMatch(name) ==
    /\ Len(name) > Len(FolderPrefix)
    /\ SubSeq(name, 1, Len(FolderPrefix)) = FolderPrefix
    /\ \A i \in (Len(FolderPrefix) + 1)..Len(name) : name[i] \in Digits

\* int(digits), most significant digit first.
RECURSIVE ParseInt(_)
ParseInt(digits) ==
    IF digits = <<>>
    THEN 0
    ELSE 10 * ParseInt(SubSeq(digits, 1, Len(digits) - 1))
         + DigitValue(digits[Len(digits)])

\* The digits s starts with: what the greedy \d+ takes.
RECURSIVE DigitRun(_)
DigitRun(s) ==
    IF s # <<>> /\ Head(s) \in Digits
    THEN <<Head(s)>> \o DigitRun(Tail(s))
    ELSE <<>>

\* match.group(1)
Group1(name) == DigitRun(SubSeq(name, Len(FolderPrefix) + 1, Len(name)))

\* The candidates (int(match.group(1)), col_name), in column order.
RECURSIVE Candidates(_)
Candidates(cols) ==
    IF cols = <<>>
    THEN <<>>
    ELSE (IF FullMatch(Head(cols))
          THEN <<[num |-> ParseInt(Group1(Head(cols))), name |-> Head(cols)]>>
          ELSE <<>>)
         \o Candidates(Tail(cols))

\* A sort that puts a candidate before the candidates of the same level.
RECURSIVE InsertByLevel_Unstable(_, _)
InsertByLevel_Unstable(sorted, cand) ==
    IF sorted = <<>> \/ cand.num <= Head(sorted).num
    THEN <<cand>> \o sorted
    ELSE <<Head(sorted)>> \o InsertByLevel_Unstable(Tail(sorted), cand)

\* One insertion of list.sort(key=lambda x: x[0]): the sort is stable, the
\* candidate goes after the candidates of a level not above its own.
RECURSIVE InsertByLevel(_, _)
InsertByLevel(sorted, cand) ==
    IF sorted = <<>> \/ cand.num < Head(sorted).num
    THEN <<cand>> \o sorted
    ELSE <<Head(sorted)>> \o InsertByLevel(Tail(sorted), cand)

\* folder_column_candidates.sort(key=lambda x: x[0])
RECURSIVE SortByLevel(_)
SortByLevel(cands) ==
    IF cands = <<>>
    THEN <<>>
    ELSE InsertByLevel(SortByLevel(SubSeq(cands, 1, Len(cands) - 1)),
                       cands[Len(cands)])

\* [name for num, name in folder_column_candidates]
DetectFolderColumns(cols) ==
    LET sorted == SortByLevel(Candidates(cols))
    IN  [i \in 1..Len(sorted) |-> sorted[i].name]

---------------------------------------------------------------------------
(* Step 6: cleaning.                                                       *)

\* The mask with "&" in place of "|".
RetainRow_Both(row) ==
    HasContent(row[TITLE_COLUMN]) /\ HasContent(row[URL_COLUMN])

\* not_nan_title | not_nan_url, for one row.
RetainRow(row) ==
    HasContent(row[TITLE_COLUMN]) \/ HasContent(row[URL_COLUMN])

\* df_cleaned[col_name].fillna('').astype(str) for every folder column.
FillFolderCells(row, folder_cols) ==
    [c \in DOMAIN row |->
        IF In(c, folder_cols) /\ row[c] = NaN THEN <<>> ELSE row[c]]

\* df[not_nan_title | not_nan_url].copy(), then the folder cells filled.
RECURSIVE CleanRows(_, _)
CleanRows(rows, folder_cols) ==
    IF rows = <<>>
    THEN <<>>
    ELSE (IF RetainRow(Head(rows))
          THEN <<FillFolderCells(Head(rows), folder_cols)>>
          ELSE <<>>)
         \o CleanRows(Tail(rows), folder_cols)

---------------------------------------------------------------------------
(* Step 7: build_bookmark_tree.                                            *)

\* {'_bookmarks_': [], '_folders_': {}}.  '_folders_' is a dict, which keeps
\* its keys in insertion order: a sequence of (name, node) with distinct names.
EmptyNode == [bookmarks |-> <<>>, folders |-> <<>>]

UntitledBookmark ==
    <<"U", "n", "t", "i", "t", "l", "e", "d", " ",
      "B", "o", "o", "k", "m", "a", "r", "k">>

UntitledFolder ==
    <<"U", "n", "t", "i", "t", "l", "e", "d", " ",
      "F", "o", "l", "d", "e", "r">>

HashUrl == <<"#">>

\* The path that goes on past a blank cell to the next populated ones.
RECURSIVE PathFoldersForRow_Skip(_, _)
PathFoldersForRow_Skip(row, folder_cols) ==
    IF folder_cols = <<>>
    THEN <<>>
    ELSE (IF HasContent(RowGet(row, Head(folder_cols)))
          THEN <<Strip(RowGet(row, Head(folder_cols)))>>
          ELSE <<>>)
         \o PathFoldersForRow_Skip(row, Tail(folder_cols))

\* path_folders_for_row: the loop over dynamic_folder_cols, with its break.
RECURSIVE PathFoldersForRow(_, _)
PathFoldersForRow(row, folder_cols) ==
    IF folder_cols = <<>>
    THEN <<>>
    ELSE IF HasContent(RowGet(row, Head(folder_cols)))
         THEN <<Strip(RowGet(row, Head(folder_cols)))>>
              \o PathFoldersForRow(row, Tail(folder_cols))
         ELSE <<>>

\* bm_data only when has_title and has_url: a row with one of them blank
\* gets no entry.
BookmarkForRow_Both(row, title_col, url_col) ==
    IF HasContent(RowGet(row, title_col)) /\ HasContent(RowGet(row, url_col))
    THEN <<[title |-> Strip(RowGet(row, title_col)),
            url   |-> Strip(RowGet(row, url_col))]>>
    ELSE <<>>

\* bm_data when has_title or has_url, as a list of one; else nothing.
BookmarkForRow(row, title_col, url_col) ==
    LET has_title == HasContent(RowGet(row, title_col))
        has_url   == HasContent(RowGet(row, url_col))
    IN  IF has_title \/ has_url
        THEN <<[title |-> IF has_title
                          THEN Strip(RowGet(row, title_col))
                          ELSE UntitledBookmark,
                url   |-> IF has_url
                          THEN Strip(RowGet(row, url_col))
                          ELSE HashUrl]>>
        ELSE <<>>

\* The place of key `name` in a '_folders_' dict, 0 when it is not a key.
FolderIndex(folders, name) ==
    IF \E i \in 1..Len(folders) : folders[i].name = name
    THEN CHOOSE i \in 1..Len(folders) : folders[i].name = name
    ELSE 0

\* A new key put in front of the dict's keys instead of after them.
SetDefaultFolder_Front(folders, name) ==
    IF FolderIndex(folders, name) = 0
    THEN <<[name |-> name, node |-> EmptyNode]>> \o folders
    ELSE folders

\* if folder not in node['_folders_']: node['_folders_'][folder] = {...}
SetDefaultFolder(folders, name) ==
    IF FolderIndex(folders, name) = 0
    THEN Append(folders, [name |-> name, node |-> EmptyNode])
    ELSE folders

\* The walk down `path` from `node`, creating the missing folders, and the
\* append of `bms` to the node reached.
RECURSIVE InsertAtPath(_, _, _)
InsertAtPath(node, path, bms) ==
    IF path = <<>>
    THEN [node EXCEPT !.bookmarks = @ \o bms]
    ELSE LET folders == SetDefaultFolder(node.folders, Head(path))
             i       == FolderIndex(folders, Head(path))
         IN  [node EXCEPT !.folders =
                 [folders EXCEPT ![i].node =
                     InsertAtPath(folders[i].node, Tail(path), bms)]]

\* One iteration of "for _, row in df.iterrows()".
BuildRow(tree, row, title_col, url_col, folder_cols) ==
    InsertAtPath(tree,
                 PathFoldersForRow(row, folder_cols),
                 BookmarkForRow(row, title_col, url_col))

---------------------------------------------------------------------------
(* escape_html.                                                            *)

Amp == <<"&", "a", "m", "p", ";">>

Lt == <<"&", "l", "t", ";">>

Gt == <<"&", "g", "t", ";">>

Quot == <<"&", "q", "u", "o", "t", ";">>

Apos == <<"&", "#", "x", "2", "7", ";">>

\* s.replace(c, rep) for a one-character c.
RECURSIVE Replace(_, _, _)
Replace(s, c, rep) ==
    IF s = <<>>
    THEN <<>>
    ELSE (IF Head(s) = c THEN rep ELSE <<Head(s)>>) \o Replace(Tail(s), c, rep)

\* html.escape(s, quote=True): the five replacements, "&" first.
HtmlEscape(s) ==
    Replace(Replace(Replace(Replace(Replace(s,
        "&", Amp), "<", Lt), ">", Gt), "\"", Quot), "'", Apos)

\* html.escape(s, quote=False): the quotes are left as they are.
escape_html_NoQuote(text) ==
    IF text = NaN
    THEN <<>>
    ELSE Replace(Replace(Replace(text, "&", Amp), "<", Lt), ">", Gt)

escape_html(text) == IF text = NaN THEN <<>> ELSE HtmlEscape(text)

---------------------------------------------------------------------------
(* Step 8: generate_html_recursive and the document.                       *)

\* One line of the document: its indent level, what it is, and the escaped
\* texts it carries.
\*   "A"    <DT><A HREF="{href}" ADD_DATE=.. LAST_MODIFIED=..>{text}</A>
\*   "H3"   <DT><H3 ADD_DATE=.. LAST_MODIFIED=.. PERSONAL_TOOLBAR_FOLDER="false">{text}</H3>
\*   "DL"   <DL><p>
\*   "/DL"  </DL><p>
\*   ""     an empty line
\*   "DOCTYPE", "META", "TITLE", "H1"   the header's first four lines
Line(tag, indent, href, text) ==
    [tag |-> tag, indent |-> indent, href |-> href, text |-> text]

\* The lines of a string that is the "\n".join of the strings whose lines
\* are `lines`: the join of nothing is "", which is one empty line.
JoinedLines(lines) ==
    IF lines = <<>> THEN <<Line("", 0, <<>>, <<>>)>> ELSE lines

\* The loop over data_structure['_bookmarks_'].
RECURSIVE BookmarkLines(_, _)
BookmarkLines(bookmarks, indent_level) ==
    IF bookmarks = <<>>
    THEN <<>>
    ELSE LET title == escape_html(Head(bookmarks).title)
             url   == escape_html(Head(bookmarks).url)
         IN  (IF title = <<>> /\ url = <<>>
              THEN <<>>
              ELSE <<Line("A", indent_level,
                          IF url = <<>> THEN HashUrl ELSE url,
                          IF title = <<>> THEN UntitledBookmark ELSE title)>>)
             \o BookmarkLines(Tail(bookmarks), indent_level)

\* The line that closes a folder's list, as it was before the fix the source
\* records: a second '<DL><p>'.
CloseLine_Open(indent_level) == Line("DL", indent_level, <<>>, <<>>)

\* f'{indent}</DL><p>'
CloseLine(indent_level) == Line("/DL", indent_level, <<>>, <<>>)

RECURSIVE generate_html_recursive(_, _)
RECURSIVE FolderLines(_, _)
\* The loop over data_structure['_folders_'].items().
FolderLines(folders, indent_level) ==
    IF folders = <<>>
    THEN <<>>
    ELSE LET name == escape_html(Head(folders).name)
         IN  <<Line("H3", indent_level, <<>>,
                    IF name = <<>> THEN UntitledFolder ELSE name),
               Line("DL", indent_level, <<>>, <<>>)>>
             \o JoinedLines(generate_html_recursive(Head(folders).node,
                                                    indent_level + 1))
             \o <<CloseLine(indent_level)>>
             \o FolderLines(Tail(folders), indent_level)

\* html_output, whose "\n".join is returned.
generate_html_recursive(data_structure, indent_level) ==
    BookmarkLines(data_structure.bookmarks, indent_level)
    \o FolderLines(data_structure.folders, indent_level)

\* html_header, which ends with '<DL><p>\n'.
HtmlHeader ==
    <<Line("DOCTYPE", 0, <<>>, <<>>), Line("META", 0, <<>>, <<>>),
      Line("TITLE", 0, <<>>, <<>>), Line("H1", 0, <<>>, <<>>),
      Line("DL", 0, <<>>, <<>>)>>

\* html_footer
HtmlFooter == <<Line("/DL", 0, <<>>, <<>>)>>

\* html_header + html_content + "\n" + html_footer
FullHtml(tree) ==
    HtmlHeader \o JoinedLines(generate_html_recursive(tree, 1)) \o HtmlFooter

---------------------------------------------------------------------------
(* Step 10: analyze_tree_stats and get_summary_message.                    *)

\* {'total_bookmarks': 0, 'folders_per_level': collections.defaultdict(set)}
EmptyStats == [total_bookmarks |-> 0, folders_per_level |-> <<>>]

\* Each folder counted, not each name: a list in place of the set.  The
\* element added is the pair of the name and the number already there.
AddFolderName_PerFolder(per_level, depth, name) ==
    [d \in DOMAIN per_level \cup {depth} |->
        IF d = depth
        THEN (IF d \in DOMAIN per_level
              THEN per_level[d] \cup {<<name, Cardinality(per_level[d])>>}
              ELSE {<<name, 0>>})
        ELSE per_level[d]]

\* stats_dict['folders_per_level'][current_depth].add(folder_name)
AddFolderName(per_level, depth, name) ==
    [d \in DOMAIN per_level \cup {depth} |->
        IF d = depth
        THEN (IF d \in DOMAIN per_level THEN per_level[d] ELSE {}) \cup {name}
        ELSE per_level[d]]

\* The total of the root's own bookmarks only.
AddBookmarks_Set(total, bookmarks) == Len(bookmarks)

\* stats_dict['total_bookmarks'] += len(node.get('_bookmarks_', []))
AddBookmarks(total, bookmarks) == total + Len(bookmarks)

RECURSIVE analyze_tree_stats(_, _, _)
RECURSIVE AnalyzeFolders(_, _, _)
\* The loop over node['_folders_'].items().
AnalyzeFolders(folders, current_depth, stats_dict) ==
    IF folders = <<>>
    THEN stats_dict
    ELSE AnalyzeFolders(
             Tail(folders), current_depth,
             analyze_tree_stats(
                 Head(folders).node, current_depth + 1,
                 [stats_dict EXCEPT !.folders_per_level =
                     AddFolderName(@, current_depth, Head(folders).name)]))

analyze_tree_stats(node, current_depth, stats_dict) ==
    AnalyzeFolders(
        node.folders, current_depth,
        [stats_dict EXCEPT !.total_bookmarks = AddBookmarks(@, node.bookmarks)])

\* sorted(keys)
RECURSIVE SortedKeys(_)
SortedKeys(keys) ==
    IF keys = {}
    THEN <<>>
    ELSE LET least == CHOOSE k \in keys : \A other \in keys : k <= other
         IN  <<least>> \o SortedKeys(keys \ {least})

\* One line of the summary: "total" is 'Total bookmarks processed: {count}',
\* "none" is 'No folders were created.', "header" is 'Folders created per
\* level:', "level" is '  * L{level}: {count} folder(s)'.
SummaryLine(kind, level, count) ==
    [kind |-> kind, level |-> level, count |-> count]

\* level_name = f"L{depth + 1}"
LevelName(depth) == depth + 1

get_summary_message(stats) ==
    <<SummaryLine("total", 0, stats.total_bookmarks)>>
    \o (IF DOMAIN stats.folders_per_level = {}
        THEN <<SummaryLine("none", 0, 0)>>
        ELSE <<SummaryLine("header", 0, 0)>>
             \o LET depths == SortedKeys(DOMAIN stats.folders_per_level)
                IN  [i \in 1..Len(depths) |->
                        SummaryLine("level", LevelName(depths[i]),
                            Cardinality(stats.folders_per_level[depths[i]]))])

---------------------------------------------------------------------------
(* The tables the specifications start from.                               *)

FolderL1 == FolderPrefix \o <<"1">>

FolderL2 == FolderPrefix \o <<"2">>

FolderL3 == FolderPrefix \o <<"3">>

\* The row of a table with columns `cols` whose cells are `cells`, in order.
RowOf(cols, cells) ==
    [c \in {cols[i] : i \in 1..Len(cols)} |->
        cells[CHOOSE i \in 1..Len(cols) : cols[i] = c]]

\* Title cells: missing, blank, and a text to trim and to escape.
TitleCells == {NaN, <<" ">>, <<" ", "a", "<", ">">>}

\* URL cells: missing, blank, and a text to escape.
UrlCells == {NaN, <<"\t">>, <<"u", "\"", "&", "'">>}

\* Folder cells: missing, and two names, one of them to escape.
FolderCells == {NaN, <<"x">>, <<"y", "&">>}

\* Tables that vary the title and the URL, under a folder name that is
\* written with and without surrounding blanks.
FieldsColumns == <<TITLE_COLUMN, URL_COLUMN, FolderL1>>

FieldsRows ==
    {RowOf(FieldsColumns, <<t, u, f>>) :
        t \in TitleCells, u \in UrlCells,
        f \in {<<"x", "&">>, <<" ", "x", "&", " ">>}}

\* Tables that vary the folder path, the columns not in level order.
FoldersColumns == <<FolderL2, TITLE_COLUMN, FolderL1, URL_COLUMN>>

FoldersRows ==
    {RowOf(FoldersColumns, <<f2, t, f1, <<"u">> >>) :
        f2 \in FolderCells, t \in {<<"a">>, <<"b">>}, f1 \in FolderCells}

\* Tables with three folder levels, and blank, empty and missing folder cells.
DeepColumns == <<TITLE_COLUMN, URL_COLUMN, FolderL1, FolderL2, FolderL3>>

DeepRows ==
    {RowOf(DeepColumns, <<<<"a">>, NaN, f1, f2, f3>>) :
        f1 \in {<<" ">>, <<"x">>}, f2 \in {<<>>, <<"x">>}, f3 \in {NaN, <<"x">>}}

\* Tables without folder columns.
FlatColumns == <<URL_COLUMN, TITLE_COLUMN>>

FlatRows ==
    {RowOf(FlatColumns, <<u, t>>) : u \in {NaN, <<"u">>}, t \in {NaN, <<"a">>}}

\* Tables that lack a required column.
NoUrlColumns == <<TITLE_COLUMN, FolderL1>>

NoTitleColumns == <<FolderL1, URL_COLUMN>>

NeitherColumns == <<FolderL1, FolderL2>>

Workbooks ==
    { [columns |-> FieldsColumns, rows |-> FieldsRows],
      [columns |-> FoldersColumns, rows |-> FoldersRows],
      [columns |-> DeepColumns, rows |-> DeepRows],
      [columns |-> FlatColumns, rows |-> FlatRows],
      [columns |-> NoUrlColumns,
       rows |-> {RowOf(NoUrlColumns, <<<<"a">>, <<"x">> >>)}],
      [columns |-> NoTitleColumns,
       rows |-> {RowOf(NoTitleColumns, <<<<"x">>, <<"u">> >>)}],
      [columns |-> NeitherColumns,
       rows |-> {RowOf(NeitherColumns, <<<<"x">>, <<"x">> >>)}] }

\* The column names of the schema-detection specification: the required
\* two, names that match the pattern (two of them the same level, one with
\* two digits) and names that only nearly match.
ColumnNames ==
    { TITLE_COLUMN, URL_COLUMN,
      FolderL1, FolderL2,
      FolderPrefix \o <<"0", "1">>,
      FolderPrefix \o <<"1", "0">>,
      FolderPrefix,
      <<"X">> \o FolderL1,
      FolderL1 \o <<"x">>,
      <<"f">> \o Tail(FolderL1) }

\* The lists of at most n distinct names.
ColumnLists(n) ==
    UNION { {cols \in [1..k -> ColumnNames] :
                \A i, j \in 1..k : i # j => cols[i] # cols[j]} : k \in 0..n }

---------------------------------------------------------------------------
(* The steps of main().                                                    *)

\* The state common to every start: nothing computed yet.
Start ==
    /\ pc = "validate"
    /\ dynamic_folder_columns = <<>>
    /\ df_cleaned = <<>>
    /\ bookmark_tree = EmptyNode
    /\ row_idx = 1
    /\ full_html = <<>>
    /\ saved = FALSE
    /\ import_stats = EmptyStats
    /\ summary_message_str = <<>>

\* Step 3 has read a table of at most MaxRows rows.
Init ==
    /\ Start
    /\ \E wb \in Workbooks :
        /\ columns = wb.columns
        /\ \E n \in 0..MaxRows : df \in [1..n -> wb.rows]

\* Step 3 has read a table of at most MaxCols columns and no rows.
InitDetect ==
    /\ Start
    /\ columns \in ColumnLists(MaxCols)
    /\ df = <<>>

\* Step 4: without the two required columns main() returns.
ValidateColumns ==
    /\ pc = "validate"
    /\ pc' = IF RequiredColumnsPresent(columns) THEN "detect" ELSE "error"
    /\ UNCHANGED <<columns, df, dynamic_folder_columns, df_cleaned,
                   bookmark_tree, row_idx, full_html, saved, import_stats,
                   summary_message_str>>

\* Step 5.
DetectStructure ==
    /\ pc = "detect"
    /\ dynamic_folder_columns' = DetectFolderColumns(columns)
    /\ pc' = "clean"
    /\ UNCHANGED <<columns, df, df_cleaned, bookmark_tree, row_idx, full_html,
                   saved, import_stats, summary_message_str>>

\* Step 6.
CleanData ==
    /\ pc = "clean"
    /\ df_cleaned' = CleanRows(df, dynamic_folder_columns)
    /\ pc' = "build"
    /\ UNCHANGED <<columns, df, dynamic_folder_columns, bookmark_tree, row_idx,
                   full_html, saved, import_stats, summary_message_str>>

\* Step 7, one row of build_bookmark_tree's loop.
BuildRowStep ==
    /\ pc = "build"
    /\ row_idx <= Len(df_cleaned)
    /\ bookmark_tree' = BuildRow(bookmark_tree, df_cleaned[row_idx],
                                 TITLE_COLUMN, URL_COLUMN,
                                 dynamic_folder_columns)
    /\ row_idx' = row_idx + 1
    /\ UNCHANGED <<pc, columns, df, dynamic_folder_columns, df_cleaned,
                   full_html, saved, import_stats, summary_message_str>>

\* Step 8, once build_bookmark_tree has returned the tree.
GenerateHtml ==
    /\ pc = "build"
    /\ row_idx > Len(df_cleaned)
    /\ full_html' = FullHtml(bookmark_tree)
    /\ pc' = "save"
    /\ UNCHANGED <<columns, df, dynamic_folder_columns, df_cleaned,
                   bookmark_tree, row_idx, saved, import_stats,
                   summary_message_str>>

\* Step 9: the file is written, or open/write raises and main() returns.
SaveFile ==
    /\ pc = "save"
    /\ \/ saved' = TRUE /\ pc' = "finalize"
       \/ saved' = FALSE /\ pc' = "write_error"
    /\ UNCHANGED <<columns, df, dynamic_folder_columns, df_cleaned,
                   bookmark_tree, row_idx, full_html, import_stats,
                   summary_message_str>>

\* Step 10.
Finalize ==
    /\ pc = "finalize"
    /\ import_stats' = analyze_tree_stats(bookmark_tree, 0, EmptyStats)
    /\ summary_message_str' = get_summary_message(import_stats')
    /\ pc' = "done"
    /\ UNCHANGED <<columns, df, dynamic_folder_columns, df_cleaned,
                   bookmark_tree, row_idx, full_html, saved>>

Next ==
    \/ ValidateColumns
    \/ DetectStructure
    \/ CleanData
    \/ BuildRowStep
    \/ GenerateHtml
    \/ SaveFile
    \/ Finalize

Spec == Init /\ [][Next]_vars

\* The steps up to the detection of the folder columns.
NextDetect ==
    \/ ValidateColumns
    \/ DetectStructure

SpecDetect == InitDetect /\ [][NextDetect]_vars

\* The rows of a call of build_bookmark_tree that is not preceded by the
\* cleaning: the title and the URL may both be blank, and a folder cell may
\* be missing.
BuildColumns == <<TITLE_COLUMN, URL_COLUMN, FolderL1, FolderL2>>

BuildRows ==
    {RowOf(BuildColumns, <<t, u, f1, f2>>) :
        t \in {NaN, <<" ">>, <<"a">>}, u \in {NaN, <<"u">>},
        f1 \in {NaN, <<"x">>}, f2 \in {NaN, <<"x">>}}

\* build_bookmark_tree(df, 'Title', 'URL', ['FolderL1', 'FolderL2']) is
\* entered with at most MaxRows rows, any of BuildRows, as its df.
InitBuild ==
    /\ pc = "build"
    /\ columns = BuildColumns
    /\ dynamic_folder_columns = <<FolderL1, FolderL2>>
    /\ \E n \in 0..MaxRows : df \in [1..n -> BuildRows]
    /\ df_cleaned = df
    /\ bookmark_tree = EmptyNode
    /\ row_idx = 1
    /\ full_html = <<>>
    /\ saved = FALSE
    /\ import_stats = EmptyStats
    /\ summary_message_str = <<>>

\* The loop of build_bookmark_tree.
NextBuild == BuildRowStep

SpecBuild == InitBuild /\ [][NextBuild]_vars

---------------------------------------------------------------------------
(* What the claims speak of, stated without the operators of the steps.    *)

\* A cell is blank: absent or NaN, or a text of nothing but whitespace.
Blank(cell) ==
    cell = NaN \/ \A i \in 1..Len(cell) : cell[i] \in Whitespace

\* A text that is not blank, from its first to its last character that is
\* not whitespace.
Trimmed(cell) ==
    LET solid == {i \in 1..Len(cell) : cell[i] \notin Whitespace}
    IN  SubSeq(cell,
               CHOOSE i \in solid : \A j \in solid : i <= j,
               CHOOSE i \in solid : \A j \in solid : j <= i)

\* The n-th member of a set of numbers, counting from the least.
Nth(S, n) == CHOOSE x \in S : Cardinality({y \in S : y < x}) = n - 1

\* The rows of the table with a title or a URL.
KeptIdx ==
    {i \in 1..Len(df) :
        ~ (Blank(df[i][TITLE_COLUMN]) /\ Blank(df[i][URL_COLUMN]))}

\* The j-th of them, as the table has it.
InputRow(j) == df[Nth(KeptIdx, j)]

\* The rows build_bookmark_tree has processed.
Processed == 1..(row_idx - 1)

\* The steps at and after which the tree is complete and rendered.
Rendered == pc \in {"save", "write_error", "finalize", "done"}

\* The number of leading folder cells of a row that are not blank.
FilledDepth(row) ==
    LET ok == {n \in 0..Len(dynamic_folder_columns) :
                  \A i \in 1..n : ~ Blank(row[dynamic_folder_columns[i]])}
    IN  CHOOSE n \in ok : \A m \in ok : m <= n

\* The path of a row: its leading non-blank folder cells, trimmed.
ExpectedPath(row) ==
    [i \in 1..FilledDepth(row) |-> Trimmed(row[dynamic_folder_columns[i]])]

\* The entry of a row.
ExpectedBookmark(row) ==
    [title |-> IF Blank(row[TITLE_COLUMN])
               THEN UntitledBookmark ELSE Trimmed(row[TITLE_COLUMN]),
     url   |-> IF Blank(row[URL_COLUMN])
               THEN HashUrl ELSE Trimmed(row[URL_COLUMN])]

IsPrefix(p, q) == Len(p) <= Len(q) /\ SubSeq(q, 1, Len(p)) = p

Prefixes(p) == {SubSeq(p, 1, n) : n \in 0..Len(p)}

\* The paths of the nodes of a tree, the root's being <<>>.
RECURSIVE NodePaths(_)
NodePaths(node) ==
    {<<>>} \cup
    UNION { {<<node.folders[i].name>> \o p :
                p \in NodePaths(node.folders[i].node)} :
            i \in 1..Len(node.folders) }

\* The node of a tree at one of its paths.
RECURSIVE NodeAt(_, _)
NodeAt(node, path) ==
    IF path = <<>>
    THEN node
    ELSE NodeAt((CHOOSE f \in {node.folders[i] : i \in 1..Len(node.folders)} :
                    f.name = Head(path)).node,
                Tail(path))

\* The names of a node's child folders, in the node's order.
ChildNames(node) == [i \in 1..Len(node.folders) |-> node.folders[i].name]

\* The processed rows whose path is P, in input order.
RowsAt(P) == {j \in Processed : ExpectedPath(InputRow(j)) = P}

\* The first processed row whose path goes through P.
FirstNeed(P) ==
    LET need == {j \in Processed : IsPrefix(P, ExpectedPath(InputRow(j)))}
    IN  CHOOSE j \in need : \A k \in need : j <= k

---------------------------------------------------------------------------
\* C1.  First-gap-terminates: once the rows are cleaned and while and after
\* build_bookmark_tree folds them, the nodes of the tree are exactly the root
\* and the prefixes of the processed rows' paths, a row's path being its
\* leading folder cells that are not blank (NaN, empty or whitespace),
\* trimmed; and the node at a row's path holds the row's entry, each node
\* holding as many entries as rows have its path.  So a folder cell after a
\* blank one creates and selects no node, whatever it holds.
C1_FirstGapTerminates ==
    pc \in {"build", "save", "write_error", "finalize", "done"} =>
        /\ NodePaths(bookmark_tree) =
               {<<>>} \cup UNION {Prefixes(ExpectedPath(InputRow(j))) :
                                      j \in Processed}
        /\ \A j \in Processed :
               \E k \in 1..Len(NodeAt(bookmark_tree,
                                      ExpectedPath(InputRow(j))).bookmarks) :
                   NodeAt(bookmark_tree, ExpectedPath(InputRow(j))).bookmarks[k]
                       = ExpectedBookmark(InputRow(j))
        /\ \A P \in NodePaths(bookmark_tree) :
               Len(NodeAt(bookmark_tree, P).bookmarks) = Cardinality(RowsAt(P))

\* A processed row with a populated folder cell, then a blank one, then a
\* populated one: its entry is in the folder of the first cell, which has no
\* child.
C1_Witness ==
    /\ pc = "build"
    /\ Len(dynamic_folder_columns) >= 3
    /\ \E j \in Processed :
        /\ ~ Blank(InputRow(j)[dynamic_folder_columns[1]])
        /\ Blank(InputRow(j)[dynamic_folder_columns[2]])
        /\ ~ Blank(InputRow(j)[dynamic_folder_columns[3]])
        /\ NodeAt(bookmark_tree, ExpectedPath(InputRow(j))).folders = <<>>
        /\ NodeAt(bookmark_tree, ExpectedPath(InputRow(j))).bookmarks # <<>>

---------------------------------------------------------------------------
\* The order of a node's children and entries after the processed rows.
C2_OrderOfInput ==
    pc \in {"build", "save", "write_error", "finalize", "done"} =>
        \A P \in NodePaths(bookmark_tree) :
            LET node  == NodeAt(bookmark_tree, P)
                names == ChildNames(node)
                rows  == RowsAt(P)
            IN  /\ \A i, k \in 1..Len(names) :
                       i < k => FirstNeed(Append(P, names[i]))
                                    < FirstNeed(Append(P, names[k]))
                /\ Len(node.bookmarks) = Cardinality(rows)
                /\ \A i \in 1..Len(node.bookmarks) :
                       node.bookmarks[i] = ExpectedBookmark(InputRow(Nth(rows, i)))

\* A step keeps every node, its children and its entries where they are.
C2_StepKeepsOrder ==
    \A P \in NodePaths(bookmark_tree) :
        /\ P \in NodePaths(bookmark_tree')
        /\ IsPrefix(ChildNames(NodeAt(bookmark_tree, P)),
                    ChildNames(NodeAt(bookmark_tree', P)))
        /\ IsPrefix(NodeAt(bookmark_tree, P).bookmarks,
                    NodeAt(bookmark_tree', P).bookmarks)

---------------------------------------------------------------------------
\* C4.  Row cleaning: the cleaned rows are the rows of the table whose title
\* and URL are not both blank (a blank cell being NaN or a text that trims
\* to nothing), in the table's order, each with its cells as the table has
\* them but for the missing folder cells, which are empty texts.
C4_CleanKeepsRowsWithContent ==
    pc \in {"build", "save", "write_error", "finalize", "done"} =>
        /\ Len(df_cleaned) = Cardinality(KeptIdx)
        /\ \A j \in 1..Len(df_cleaned) :
               /\ DOMAIN df_cleaned[j] = DOMAIN InputRow(j)
               /\ \A c \in DOMAIN InputRow(j) :
                      df_cleaned[j][c] =
                          IF InputRow(j)[c] = NaN /\ In(c, dynamic_folder_columns)
                          THEN <<>>
                          ELSE InputRow(j)[c]

\* A table whose first row is dropped (a NaN title and a blank URL) and whose
\* second row is kept with a blank title.
C4_Witness ==
    /\ pc = "build"
    /\ Len(df) = 2
    /\ df[1][TITLE_COLUMN] = NaN
    /\ df[1][URL_COLUMN] # NaN
    /\ Blank(df[2][TITLE_COLUMN])
    /\ Len(df_cleaned) = 1
    /\ df_cleaned[1][URL_COLUMN] = df[2][URL_COLUMN]

---------------------------------------------------------------------------
(* The document and the statistics, read back.                             *)

\* The places of the lines of a document with a tag.
LinesWith(doc, tag) == {i \in 1..Len(doc) : doc[i].tag = tag}

\* The entries of a tree, a node's own before those of its folders.
RECURSIVE EntriesOf(_)
RECURSIVE EntriesOfFolders(_)
EntriesOfFolders(folders) ==
    IF folders = <<>>
    THEN <<>>
    ELSE EntriesOf(Head(folders).node) \o EntriesOfFolders(Tail(folders))

EntriesOf(node) == node.bookmarks \o EntriesOfFolders(node.folders)

\* The folder names of a tree, a folder's before those of its subfolders.
RECURSIVE FolderNamesOf(_)
FolderNamesOf(folders) ==
    IF folders = <<>>
    THEN <<>>
    ELSE <<Head(folders).name>>
         \o FolderNamesOf(Head(folders).node.folders)
         \o FolderNamesOf(Tail(folders))

\* The markup entity of a character, the character itself when it has none.
Entity(c) ==
    CASE c = "&" -> Amp
      [] c = "<" -> Lt
      [] c = ">" -> Gt
      [] c = "\"" -> Quot
      [] c = "'" -> Apos
      [] OTHER -> <<c>>

\* A text with each character replaced by its entity.
RECURSIVE EntityText(_)
EntityText(s) ==
    IF s = <<>> THEN <<>> ELSE Entity(Head(s)) \o EntityText(Tail(s))

\* No '<', '>' or '"' in a text, and no '&' but the first of an entity.
NoRawMarkup(text) ==
    \A i \in 1..Len(text) :
        /\ text[i] \notin {"<", ">", "\""}
        /\ text[i] = "&" =>
               \E e \in {Amp, Lt, Gt, Quot, Apos} :
                   /\ i + Len(e) - 1 <= Len(text)
                   /\ SubSeq(text, i, i + Len(e) - 1) = e

---------------------------------------------------------------------------
\* C3.  Once the statistics are computed, total_bookmarks is the number of
\* bookmark lines (<DT><A ...>) of the document rendered from the same tree.
C3_TotalIsBookmarkLines ==
    pc = "done" =>
        import_stats.total_bookmarks = Cardinality(LinesWith(full_html, "A"))

\* A finished run with an entry at the root and an entry in a folder.
C3_Witness ==
    /\ pc = "done"
    /\ bookmark_tree.bookmarks # <<>>
    /\ \E i \in 1..Len(bookmark_tree.folders) :
           bookmark_tree.folders[i].node.bookmarks # <<>>
    /\ import_stats.total_bookmarks = 2

---------------------------------------------------------------------------
\* C7.  Escaping: in the rendered document no text of a bookmark line (title
\* or URL) or of a folder line holds a raw '<', '>' or '"', nor a '&' that
\* does not begin an entity; the bookmark lines carry, in the tree's order,
\* the title and the URL of each entry with every character replaced by its
\* entity, and the folder lines the folder names likewise.
C7_TextsAreEscaped ==
    Rendered =>
        /\ \A i \in 1..Len(full_html) :
               NoRawMarkup(full_html[i].href) /\ NoRawMarkup(full_html[i].text)
        /\ LET at      == LinesWith(full_html, "A")
               entries == EntriesOf(bookmark_tree)
           IN  /\ Cardinality(at) = Len(entries)
               /\ \A n \in 1..Len(entries) :
                      /\ full_html[Nth(at, n)].text = EntityText(entries[n].title)
                      /\ full_html[Nth(at, n)].href = EntityText(entries[n].url)
        /\ LET at    == LinesWith(full_html, "H3")
               names == FolderNamesOf(bookmark_tree.folders)
           IN  /\ Cardinality(at) = Len(names)
               /\ \A n \in 1..Len(names) :
                      full_html[Nth(at, n)].text = EntityText(names[n])

\* A rendered tree with an entry whose title holds '<' and '>' and whose URL
\* holds '"', '&' and an apostrophe, and with a folder whose name holds '&'.
C7_Witness ==
    /\ Rendered
    /\ \E n \in 1..Len(EntriesOf(bookmark_tree)) :
        /\ EntriesOf(bookmark_tree)[n].title = <<"a", "<", ">">>
        /\ EntriesOf(bookmark_tree)[n].url = <<"u", "\"", "&", "'">>
    /\ \E i \in LinesWith(full_html, "A") :
           full_html[i].text = <<"a">> \o Lt \o Gt
    /\ \E i \in LinesWith(full_html, "H3") :
           full_html[i].text = <<"x">> \o Amp

---------------------------------------------------------------------------
\* C6.  A table without the title column or without the URL column: the run
\* goes from the validation to the error and nowhere else, so nothing is
\* cleaned, no tree is built, no document is rendered or written and no
\* statistics or summary are computed.
C6_MissingColumnStopsTheRun ==
    (TITLE_COLUMN \notin {columns[i] : i \in 1..Len(columns)}
     \/ URL_COLUMN \notin {columns[i] : i \in 1..Len(columns)}) =>
        /\ pc \in {"validate", "error"}
        /\ dynamic_folder_columns = <<>>
        /\ df_cleaned = <<>>
        /\ bookmark_tree = EmptyNode
        /\ row_idx = 1
        /\ full_html = <<>>
        /\ saved = FALSE
        /\ import_stats = EmptyStats
        /\ summary_message_str = <<>>

\* The run of a table with a title column, rows and no URL column has ended
\* in the error.
C6_Witness ==
    /\ pc = "error"
    /\ In(TITLE_COLUMN, columns)
    /\ ~ In(URL_COLUMN, columns)
    /\ df # <<>>

---------------------------------------------------------------------------
\* The folder names at depth d of a tree, the root's children being at 0.
NamesAtDepth(tree, d) ==
    {P[Len(P)] : P \in {Q \in NodePaths(tree) : Len(Q) = d + 1}}

\* The depth of the deepest folder of a tree, plus one.
Levels(tree) ==
    Cardinality({Len(P) : P \in NodePaths(tree)}) - 1

\* C8.  Folders per level: in the statistics, the levels are the depths at
\* which the tree has folders, and the names counted at depth d are the
\* distinct folder names at depth d anywhere in the tree; the summary has,
\* after its total, either the line for no folders or a header and one line
\* per level in ascending order, level d labelled L(d+1), with the number of
\* distinct names at depth d.
C8_FoldersPerLevel ==
    pc = "done" =>
        LET n == Levels(bookmark_tree)
        IN  /\ DOMAIN import_stats.folders_per_level = 0..(n - 1)
            /\ \A d \in 0..(n - 1) :
                   Cardinality(import_stats.folders_per_level[d])
                       = Cardinality(NamesAtDepth(bookmark_tree, d))
            /\ summary_message_str[1].kind = "total"
            /\ IF n = 0
               THEN /\ Len(summary_message_str) = 2
                    /\ summary_message_str[2].kind = "none"
               ELSE /\ Len(summary_message_str) = n + 2
                    /\ summary_message_str[2].kind = "header"
                    /\ \A d \in 0..(n - 1) :
                           /\ summary_message_str[d + 3].kind = "level"
                           /\ summary_message_str[d + 3].level = d + 1
                           /\ summary_message_str[d + 3].count
                                  = Cardinality(NamesAtDepth(bookmark_tree, d))

\* A finished run whose tree has two folders of the root with a subfolder of
\* the same name each: the summary counts one folder at the second level.
C8_Witness ==
    /\ pc = "done"
    /\ Len(bookmark_tree.folders) = 2
    /\ bookmark_tree.folders[1].node.folders # <<>>
    /\ ChildNames(bookmark_tree.folders[1].node)
           = ChildNames(bookmark_tree.folders[2].node)
    /\ summary_message_str[4] = SummaryLine("level", 2, 1)

---------------------------------------------------------------------------
\* The openings less the closings among the lines i..j of a document.
Balance(doc, i, j) ==
    Cardinality({k \in i..j : doc[k].tag = "DL"})
    - Cardinality({k \in i..j : doc[k].tag = "/DL"})

\* The closing line that matches the opening line at i: the first after it
\* at which the openings and the closings from i on are as many; 0 if none.
MatchOf(doc, i) ==
    LET ends == {j \in (i + 1)..Len(doc) :
                    doc[j].tag = "/DL" /\ Balance(doc, i, j) = 0}
    IN  IF ends = {} THEN 0 ELSE CHOOSE j \in ends : \A k \in ends : j <= k

\* C10.  Well nested: in the full document every folder heading is followed
\* at once by one opening line '<DL><p>' and not by two; every opening line
\* has its matching closing line '</DL><p>', of the same indent, with the
\* lines between them deeper (the folder's subtree) and no two openings
\* sharing a closing; there are as many openings as closings, one for the
\* document and one per folder of the tree; and no prefix of the document
\* has more closings than openings.
C10_WellNested ==
    Rendered =>
        LET doc    == full_html
            opens  == LinesWith(doc, "DL")
            closes == LinesWith(doc, "/DL")
        IN  /\ \A i \in LinesWith(doc, "H3") :
                   /\ i + 2 <= Len(doc)
                   /\ doc[i + 1].tag = "DL"
                   /\ doc[i + 1].indent = doc[i].indent
                   /\ doc[i + 2].tag # "DL"
            /\ \A i \in opens :
                   /\ MatchOf(doc, i) # 0
                   /\ doc[MatchOf(doc, i)].indent = doc[i].indent
                   /\ \A k \in (i + 1)..(MatchOf(doc, i) - 1) :
                          doc[k].tag = "" \/ doc[k].indent > doc[i].indent
                   /\ \A k \in opens : k # i => MatchOf(doc, k) # MatchOf(doc, i)
            /\ Cardinality(opens) = Cardinality(closes)
            /\ Cardinality(opens) = Cardinality(NodePaths(bookmark_tree))
            /\ \A k \in 1..Len(doc) : Balance(doc, 1, k) >= 0
            /\ Balance(doc, 1, Len(doc)) = 0

\* A rendered document with a folder inside a folder and with two folders
\* side by side.
C10_Witness ==
    /\ Rendered
    /\ \E i, j \in LinesWith(full_html, "H3") :
           full_html[i].indent < full_html[j].indent
    /\ \E i, j \in LinesWith(full_html, "H3") :
           i # j /\ full_html[i].indent = full_html[j].indent

---------------------------------------------------------------------------
(* The folder columns, read back.                                          *)

\* The whole name is 'FolderL' and then n digits, for some n of 1 or more.
IsLevelName(name) ==
    \E n \in 1..Len(name) :
        /\ Len(name) = Len(FolderPrefix) + n
        /\ \A i \in 1..Len(FolderPrefix) : name[i] = FolderPrefix[i]
        /\ \A i \in 1..n : name[Len(FolderPrefix) + i] \in Digits

\* 10 to the power n.
RECURSIVE Pow10(_)
Pow10(n) == IF n = 0 THEN 1 ELSE 10 * Pow10(n - 1)

\* The sum of the terms f[i] for i in S.
RECURSIVE Sum(_, _)
Sum(f, S) ==
    IF S = {}
    THEN 0
    ELSE LET i == CHOOSE x \in S : TRUE IN f[i] + Sum(f, S \ {i})

\* The number the digits of a level name write, in base ten.
LevelNumber(name) ==
    Sum([i \in (Len(FolderPrefix) + 1)..Len(name) |->
            DigitValue(name[i]) * Pow10(Len(name) - i)],
        (Len(FolderPrefix) + 1)..Len(name))

\* The place of a column in the table.
ColumnPlace(name) == CHOOSE i \in 1..Len(columns) : columns[i] = name

\* The folder columns are detected.
Detected == pc \notin {"validate", "error", "detect"}

\* C5.  Schema detection: the detected folder columns are the columns of
\* the table whose whole name is 'FolderL' followed by one or more digits,
\* each once, in ascending order of the number the digits write; a column
\* with something before 'FolderL', after the digits, or with no digit is
\* not among them, and a table without such a column has the empty schema.
C5_DetectedAreTheLevelColumns ==
    Detected =>
        /\ {dynamic_folder_columns[i] : i \in 1..Len(dynamic_folder_columns)}
               = {columns[i] : i \in {k \in 1..Len(columns) :
                                         IsLevelName(columns[k])}}
        /\ Len(dynamic_folder_columns)
               = Cardinality({k \in 1..Len(columns) : IsLevelName(columns[k])})
        /\ \A i, j \in 1..Len(dynamic_folder_columns) :
               i < j => LevelNumber(dynamic_folder_columns[i])
                            <= LevelNumber(dynamic_folder_columns[j])

\* A table with 'FolderL10' before 'FolderL2' and with 'FolderL1x': the
\* schema is 'FolderL2', 'FolderL10'.
C5_Witness ==
    /\ Detected
    /\ In(FolderL1 \o <<"x">>, columns)
    /\ dynamic_folder_columns = <<FolderL2, FolderPrefix \o <<"1", "0">> >>
    /\ ColumnPlace(FolderPrefix \o <<"1", "0">>) < ColumnPlace(FolderL2)

---------------------------------------------------------------------------
\* C9 as the specification states it: the depth numbers of the detected
\* folder columns are strictly increasing, a second column of a depth being
\* left out.
C9_StrictlyIncreasing ==
    Detected =>
        \A i, j \in 1..Len(dynamic_folder_columns) :
            i < j => LevelNumber(dynamic_folder_columns[i])
                         < LevelNumber(dynamic_folder_columns[j])

\* C9, amended.  The depth numbers of the detected folder columns never
\* decrease along the schema; every column that matches is in the schema,
\* and columns of the same depth number ('FolderL1' and 'FolderL01') are all
\* kept, in the order the table has them.
C9_NonDecreasingAndStable ==
    Detected =>
        /\ \A k \in 1..Len(columns) :
               IsLevelName(columns[k]) => In(columns[k], dynamic_folder_columns)
        /\ \A i, j \in 1..Len(dynamic_folder_columns) :
               i < j =>
                   /\ LevelNumber(dynamic_folder_columns[i])
                          <= LevelNumber(dynamic_folder_columns[j])
                   /\ LevelNumber(dynamic_folder_columns[i])
                          = LevelNumber(dynamic_folder_columns[j])
                      => ColumnPlace(dynamic_folder_columns[i])
                             < ColumnPlace(dynamic_folder_columns[j])

\* A table with 'FolderL01' before 'FolderL1': the schema has both, in that
\* order.
C9_Witness ==
    /\ Detected
    /\ dynamic_folder_columns = <<FolderPrefix \o <<"0", "1">>, FolderL1>>

---------------------------------------------------------------------------
\* C11.  A row without a title and without a URL is a no-op of the builder:
\* the step of build_bookmark_tree that processes a row whose title and URL
\* are both blank leaves the tree as it was, its folders included, whatever
\* the row's folder cells hold.
C11_BlankRowIsNoOp ==
    [][(/\ pc = "build"
        /\ row_idx <= Len(df_cleaned)
        /\ row_idx' = row_idx + 1
        /\ Blank(df_cleaned[row_idx][TITLE_COLUMN])
        /\ Blank(df_cleaned[row_idx][URL_COLUMN]))
       => bookmark_tree' = bookmark_tree]_vars

---------------------------------------------------------------------------
\* C12.  Conservation: while and after the cleaned rows are folded, the tree
\* holds one entry per processed row, each with a title and a URL that are
\* not empty, and the entry of a row is its trimmed title and URL with
\* 'Untitled Bookmark' and '#' in place of a blank one; so the rendered tree
\* holds as many entries as there are cleaned rows, which are the rows of
\* the table with a title or a URL, and so does total_bookmarks.
C12_OneEntryPerCleanedRow ==
    /\ pc \in {"build", "save", "write_error", "finalize", "done"} =>
           LET entries == EntriesOf(bookmark_tree)
           IN  /\ Len(entries) = row_idx - 1
               /\ \A n \in 1..Len(entries) :
                      entries[n].title # <<>> /\ entries[n].url # <<>>
               /\ \A j \in Processed :
                      \E n \in 1..Len(entries) :
                          entries[n] = ExpectedBookmark(df_cleaned[j])
    /\ Rendered =>
           /\ Len(EntriesOf(bookmark_tree)) = Len(df_cleaned)
           /\ Len(df_cleaned) = Cardinality(KeptIdx)
    /\ pc = "done" => import_stats.total_bookmarks = Len(df_cleaned)

\* A finished run of a table of two rows, one without a title and one
\* without a URL: both are kept, the tree holds an entry titled 'Untitled
\* Bookmark' and an entry whose URL is '#', and the total is two.
C12_Witness ==
    /\ pc = "done"
    /\ Len(df) = 2
    /\ Blank(df[1][TITLE_COLUMN])
    /\ Blank(df[2][URL_COLUMN])
    /\ import_stats.total_bookmarks = 2
    /\ \E n \in 1..Len(EntriesOf(bookmark_tree)) :
           EntriesOf(bookmark_tree)[n].title = UntitledBookmark
    /\ \E n \in 1..Len(EntriesOf(bookmark_tree)) :
           EntriesOf(bookmark_tree)[n].url = HashUrl

====
